---- MODULE Spec2Model ----
(***************************************************************************)
(* Model of the Austrian Companies Scraper actor (src/src/main.js).        *)
(*                                                                         *)
(* Two specifications:                                                     *)
(*   Spec       the actor run of Apify.main: Task A, the Task B loop, the  *)
(*              Task C loop and the save loop, with the PQueue in between. *)
(*   SpecSweep  one call of scrapContactPages, one page fetch per step.    *)
(*                                                                         *)
(* JavaScript strings that the code concatenates (URLs) are sequences of   *)
(* fragments, so that '' is <<>> and + is \o.  A page text is the sequence *)
(* of its fragments; the regular expressions select the fragments that     *)
(* have the shape of an e-mail address or of a phone number.               *)
(***************************************************************************)
EXTENDS Integers, Sequences, FiniteSets, TLC

VARIABLES
    top_n,                    \* input.top_n
    include_tenders,          \* input.include_tenders
    max_concurrent_requests,  \* input.max_concurrent_requests
    pc,                       \* position of the async body of Apify.main
    companies,                \* const companies (Task A result)
    i,                        \* index of the for-of loop main is in
    enrichedCompanies,        \* const enrichedCompanies = []
    dataset,                  \* records pushed with dataset.pushData
    qRunning,                 \* PQueue: tasks started by the queue, not settled
    qWaiting,                 \* PQueue: tasks added, not started yet
    active,                   \* task bodies that have started and not finished
    finishedB,                \* number of Task B bodies that have finished
    finishedC,                \* number of Task C bodies that have finished
    tenderLog,                \* tender lookups made: <<company index, outcome>>
    websiteUrl,               \* scrapContactPages: the argument
    sweep,                    \* scrapContactPages: loop index, contactInfo, status
    fetchLog                  \* scrapContactPages: the axios.get calls made

mainVars == <<top_n, include_tenders, max_concurrent_requests, pc, companies, i,
              enrichedCompanies, dataset, qRunning, qWaiting, active,
              finishedB, finishedC, tenderLog>>
sweepVars == <<websiteUrl, sweep, fetchLog>>
vars == <<top_n, include_tenders, max_concurrent_requests, pc, companies, i,
          enrichedCompanies, dataset, qRunning, qWaiting, active,
          finishedB, finishedC, tenderLog, websiteUrl, sweep, fetchLog>>

\* ---------------------------------------------------------------- bounds
MaxTopN == 3
MaxConcurrent == 2

\* ------------------------------------------------------------- utilities
Range(s) == {s[k] : k \in 1..Len(s)}

Min(a, b) == IF a < b THEN a ELSE b

\* { ...r, k: v } and r.k = v on a JavaScript object
SetField(r, k, v) == (k :> v) @@ r

HasField(r, k) == k \in DOMAIN r

\* ------------------------------------------------------------ seed data
getSeedCompaniesAustria ==
    << [rank |-> 1, company_name |-> "OMV Aktiengesellschaft",
        industry |-> "Energy", hq_city |-> "Vienna",
        metric_type |-> "revenue", metric_value |-> "62500000000",
        website_url |-> <<"https://www.omv.com">>],
       [rank |-> 2, company_name |-> "Voestalpine AG",
        industry |-> "Steel & Materials", hq_city |-> "Linz",
        metric_type |-> "revenue", metric_value |-> "16200000000",
        website_url |-> <<"https://www.voestalpine.com">>],
       [rank |-> 3, company_name |-> "Erste Group Bank AG",
        industry |-> "Finance", hq_city |-> "Vienna",
        metric_type |-> "revenue", metric_value |-> "14600000000",
        website_url |-> <<"https://www.erstegroup.com">>] >>

\* seedData.slice(0, limit), limit >= 0
scrapeTopCompanies(limit) ==
    SubSeq(getSeedCompaniesAustria, 1, Min(limit, Len(getSeedCompaniesAustria)))

\* ------------------------------------------------- scrapContactPages
pagesToScrape ==
    <<"/", "/contact", "/kontakt", "/impressum", "/imprint", "/about", "/ubersicht">>

\* path.includes('imprint') || path.includes('impressum')
IsImprintPath(path) == path \in {"/imprint", "/impressum"}

EmailFragments == {"info@omv.com", "office@omv.com"}
PhoneFragments == {"+43 1 40440", "01 40440"}

IsEmail(frag) == frag \in EmailFragments
IsPhone(frag) == frag \in PhoneFragments

\* text.match(emailRegex) || []
EmailMatches(text) == SelectSeq(text, IsEmail)

\* text.match(phoneRegex) || []
PhoneMatches(text) == SelectSeq(text, IsPhone)

\* the texts a page can carry
Texts ==
    { <<"Impressum", "info@omv.com", "+43 1 40440">>,
      <<"office@omv.com", "info@omv.com", "office@omv.com", "01 40440", "01 40440">>,
      <<"Kontakt", "+43 1 40440", "01 40440", "info@omv.com", "info@omv.com">> }

\* what axios.get does: it rejects, or it resolves with a page
FetchFailed == [ok |-> FALSE, text |-> <<>>]
Responses == {FetchFailed} \cup {[ok |-> TRUE, text |-> t] : t \in Texts}

NewContactInfo == [emails |-> <<>>, phones |-> <<>>, address |-> "", imprint_url |-> <<>>]

NewSweep == [idx |-> 1, contactInfo |-> NewContactInfo, status |-> "running"]

\* the try body of one loop iteration, when axios.get resolved
ExtractPage(contactInfo, url, path, text) ==
    [contactInfo EXCEPT
        !.emails = @ \o EmailMatches(text),
        !.phones = @ \o PhoneMatches(text),
        !.imprint_url = IF IsImprintPath(path) THEN url \o <<path>> ELSE @]

OnFetchError_abort(st) == [st EXCEPT !.status = "thrown"]

\* catch (err) { /* Continue to next page */ }
OnFetchError(st) == [st EXCEPT !.idx = @ + 1]

\* one iteration of for (const path of pagesToScrape)
SweepStep(st, url, response) ==
    IF response.ok
    THEN [st EXCEPT !.contactInfo = ExtractPage(@, url, pagesToScrape[st.idx], response.text),
                    !.idx = @ + 1]
    ELSE OnFetchError(st)

RECURSIVE DedupeFrom(_, _)
DedupeFrom(s, seen) ==
    IF s = <<>> THEN <<>>
    ELSE IF Head(s) \in seen THEN DedupeFrom(Tail(s), seen)
         ELSE <<Head(s)>> \o DedupeFrom(Tail(s), seen \cup {Head(s)})

Dedupe_none(s) == s

\* [...new Set(s)]: a Set keeps insertion order
Dedupe(s) == DedupeFrom(s, {})

\* the statements after the loop
SweepReturn(st) ==
    [st EXCEPT !.contactInfo = [@ EXCEPT !.emails = Dedupe(@), !.phones = Dedupe(@)],
               !.status = "returned"]

RECURSIVE SweepFrom(_, _, _)
SweepFrom(st, url, responses) ==
    IF st.status = "thrown" THEN st
    ELSE IF st.idx > Len(pagesToScrape) THEN SweepReturn(st)
         ELSE SweepFrom(SweepStep(st, url, responses[st.idx]), url, responses)

\* the whole call, given what each of the page fetches does
scrapContactPages(url, responses) == SweepFrom(NewSweep, url, responses)

\* ------------------------------------------------ enrichCompanyContact
\* return '' on both paths
resolveWebsite(companyName) == <<>>

\* a JavaScript truthiness test of r.website_url
HasWebsite(r) == HasField(r, "website_url") /\ r.website_url # <<>>

\* what the seven page fetches of one site do
SiteResponses ==
    { [p \in 1..Len(pagesToScrape) |-> FetchFailed],
      [p \in 1..Len(pagesToScrape) |->
          [ok |-> TRUE, text |-> <<"Impressum", "info@omv.com", "+43 1 40440">>]],
      [p \in 1..Len(pagesToScrape) |->
          IF p % 2 = 0 THEN FetchFailed
          ELSE [ok |-> TRUE,
                text |-> <<"office@omv.com", "info@omv.com", "office@omv.com",
                           "01 40440", "01 40440">>]] }

WithContactInfo(enriched, contactInfo) ==
    SetField(SetField(SetField(SetField(enriched,
        "emails", contactInfo.emails),
        "phones", contactInfo.phones),
        "address", contactInfo.address),
        "imprint_url", contactInfo.imprint_url)

\* the result is [status, value]: status is "thrown" when the call rejects
enrichCompanyContact(company, responses) ==
    LET enriched == IF HasWebsite(company) THEN company
                    ELSE SetField(company, "website_url",
                                  resolveWebsite(company.company_name))
    IN  IF HasWebsite(enriched)
        THEN LET res == scrapContactPages(enriched.website_url, responses)
             IN  IF res.status = "thrown"
                 THEN [status |-> "thrown", value |-> enriched]
                 ELSE [status |-> "returned",
                       value |-> WithContactInfo(enriched, res.contactInfo)]
        ELSE [status |-> "returned", value |-> enriched]

\* ---------------------------------------------------- scrapeTenderData
\* What the portal lookup the placeholder stands for can do:
\*   "found"        the try body returns tenderData
\*   "portal_error" the try body throws, the catch returns tenderData
\*   "rejected"     the call rejects, and the caller's catch runs
TenderOutcomes == {"found", "portal_error", "rejected"}

NewTenderData ==
    [open_count |-> 0, closed_count |-> 0, tenders |-> <<>>, last_tender_date |-> "null"]

scrapeTenderData(company, outcome) ==
    IF outcome = "rejected"
    THEN [status |-> "thrown", value |-> NewTenderData]
    ELSE [status |-> "returned", value |-> NewTenderData]

OnTenderError_skip(company) == company

\* catch (err) { ...; company.tender_data = { open_count: 0, ... } }
OnTenderError(company) ==
    SetField(company, "tender_data",
             [open_count |-> 0, closed_count |-> 0, tenders |-> <<>>])

\* the body of the Task C task, for one company
TenderTask(company, outcome) ==
    LET res == scrapeTenderData(company, outcome)
    IN  IF res.status = "returned"
        THEN SetField(company, "tender_data", res.value)
        ELSE OnTenderError(company)

\* new Date().toISOString()
Now == "2026-02-24T17:00:00.000Z"

\* --------------------------------------------------------------- PQueue
Task(kind, idx) == [kind |-> kind, idx |-> idx]

QueueIdle == qRunning = {} /\ qWaiting = <<>>

Settled(t) == t \notin qRunning /\ t \notin Range(qWaiting)

\* queue.add(fn): fn starts at once when fewer than concurrency tasks run
QueueAdd(t) ==
    IF Cardinality(qRunning) < max_concurrent_requests
    THEN /\ qRunning' = qRunning \cup {t}
         /\ active' = active \cup {t}
         /\ qWaiting' = qWaiting
    ELSE /\ qWaiting' = Append(qWaiting, t)
         /\ UNCHANGED <<qRunning, active>>

\* a task settles: the queue starts the next waiting task, if any
QueueSettle(t) ==
    IF qWaiting # <<>>
    THEN /\ qRunning' = (qRunning \ {t}) \cup {Head(qWaiting)}
         /\ active' = (active \ {t}) \cup {Head(qWaiting)}
         /\ qWaiting' = Tail(qWaiting)
    ELSE /\ qRunning' = qRunning \ {t}
         /\ active' = active \ {t}
         /\ qWaiting' = qWaiting

\* ----------------------------------------------------------- Apify.main
inputVars == <<top_n, include_tenders, max_concurrent_requests>>

SweepAtRest ==
    /\ websiteUrl = <<>>
    /\ sweep = NewSweep
    /\ fetchLog = <<>>

Init ==
    /\ top_n \in 0..MaxTopN
    /\ include_tenders \in BOOLEAN
    /\ max_concurrent_requests \in 1..MaxConcurrent
    /\ pc = "taskA"
    /\ companies = <<>>
    /\ i = 1
    /\ enrichedCompanies = <<>>
    /\ dataset = <<>>
    /\ qRunning = {}
    /\ qWaiting = <<>>
    /\ active = {}
    /\ finishedB = 0
    /\ finishedC = 0
    /\ tenderLog = <<>>
    /\ SweepAtRest

\* const companies = await scrapeTopCompanies(ranking_strategy, top_n)
TaskA ==
    /\ pc = "taskA"
    /\ companies' = scrapeTopCompanies(top_n)
    /\ pc' = "taskB"
    /\ i' = 1
    /\ UNCHANGED <<inputVars, enrichedCompanies, dataset, qRunning, qWaiting,
                   active, finishedB, finishedC, tenderLog, sweepVars>>

AddB_unqueued ==
    /\ pc = "taskB"
    /\ i <= Len(companies)
    /\ active' = active \cup {Task("B", i)}
    /\ i' = i + 1
    /\ UNCHANGED <<inputVars, pc, companies, enrichedCompanies, dataset, qRunning,
                   qWaiting, finishedB, finishedC, tenderLog, sweepVars>>

\* Task B loop: await queue.add(async () => {...}) for the next company
AddB ==
    /\ pc = "taskB"
    /\ i <= Len(companies)
    /\ QueueAdd(Task("B", i))
    /\ pc' = "awaitB"
    /\ UNCHANGED <<inputVars, companies, i, enrichedCompanies, dataset,
                   finishedB, finishedC, tenderLog, sweepVars>>

\* the body of a Task B task runs to its end
FinishB ==
    \E t \in active : \E responses \in SiteResponses :
        /\ t.kind = "B"
        /\ LET res == enrichCompanyContact(companies[t.idx], responses)
           IN  enrichedCompanies' =
                   IF res.status = "returned"
                   THEN Append(enrichedCompanies, res.value)
                   ELSE enrichedCompanies
        /\ finishedB' = finishedB + 1
        /\ QueueSettle(t)
        /\ UNCHANGED <<inputVars, pc, companies, i, dataset, finishedC,
                       tenderLog, sweepVars>>

\* the promise of queue.add resolves: main goes to the next company
ResumeB ==
    /\ pc = "awaitB"
    /\ Settled(Task("B", i))
    /\ pc' = "taskB"
    /\ i' = i + 1
    /\ UNCHANGED <<inputVars, companies, enrichedCompanies, dataset, qRunning,
                   qWaiting, active, finishedB, finishedC, tenderLog, sweepVars>>

\* end of the Task B loop: await queue.onIdle(); if (include_tenders)
OnIdleB ==
    /\ pc = "taskB"
    /\ i > Len(companies)
    /\ QueueIdle
    /\ pc' = IF include_tenders THEN "taskC" ELSE "save"
    /\ i' = 1
    /\ UNCHANGED <<inputVars, companies, enrichedCompanies, dataset, qRunning,
                   qWaiting, active, finishedB, finishedC, tenderLog, sweepVars>>

AddC_unqueued ==
    /\ pc = "taskC"
    /\ i <= Len(enrichedCompanies)
    /\ active' = active \cup {Task("C", i)}
    /\ i' = i + 1
    /\ UNCHANGED <<inputVars, pc, companies, enrichedCompanies, dataset, qRunning,
                   qWaiting, finishedB, finishedC, tenderLog, sweepVars>>

\* Task C loop: await queue.add(async () => {...}) for the next company
AddC ==
    /\ pc = "taskC"
    /\ i <= Len(enrichedCompanies)
    /\ QueueAdd(Task("C", i))
    /\ pc' = "awaitC"
    /\ UNCHANGED <<inputVars, companies, i, enrichedCompanies, dataset,
                   finishedB, finishedC, tenderLog, sweepVars>>

\* the body of a Task C task runs to its end
FinishC ==
    \E t \in active : \E outcome \in TenderOutcomes :
        /\ t.kind = "C"
        /\ enrichedCompanies' =
               [enrichedCompanies EXCEPT ![t.idx] = TenderTask(@, outcome)]
        /\ tenderLog' = Append(tenderLog, <<t.idx, outcome>>)
        /\ finishedC' = finishedC + 1
        /\ QueueSettle(t)
        /\ UNCHANGED <<inputVars, pc, companies, i, dataset, finishedB, sweepVars>>

ResumeC ==
    /\ pc = "awaitC"
    /\ Settled(Task("C", i))
    /\ pc' = "taskC"
    /\ i' = i + 1
    /\ UNCHANGED <<inputVars, companies, enrichedCompanies, dataset, qRunning,
                   qWaiting, active, finishedB, finishedC, tenderLog, sweepVars>>

\* end of the Task C loop: await queue.onIdle()
OnIdleC ==
    /\ pc = "taskC"
    /\ i > Len(enrichedCompanies)
    /\ QueueIdle
    /\ pc' = "save"
    /\ i' = 1
    /\ UNCHANGED <<inputVars, companies, enrichedCompanies, dataset, qRunning,
                   qWaiting, active, finishedB, finishedC, tenderLog, sweepVars>>

\* await dataset.pushData({ ...company, scraped_at: ... })
PushData ==
    /\ pc = "save"
    /\ i <= Len(enrichedCompanies)
    /\ dataset' = Append(dataset, SetField(enrichedCompanies[i], "scraped_at", Now))
    /\ i' = i + 1
    /\ UNCHANGED <<inputVars, pc, companies, enrichedCompanies, qRunning, qWaiting,
                   active, finishedB, finishedC, tenderLog, sweepVars>>

\* the save loop ends and main returns
Done ==
    /\ pc = "save"
    /\ i > Len(enrichedCompanies)
    /\ pc' = "done"
    /\ UNCHANGED <<inputVars, companies, i, enrichedCompanies, dataset, qRunning,
                   qWaiting, active, finishedB, finishedC, tenderLog, sweepVars>>

Next ==
    \/ TaskA
    \/ AddB
    \/ FinishB
    \/ ResumeB
    \/ OnIdleB
    \/ AddC
    \/ FinishC
    \/ ResumeC
    \/ OnIdleC
    \/ PushData
    \/ Done

Spec == Init /\ [][Next]_vars

\* --------------------------------------- one call of scrapContactPages
MainAtRest ==
    /\ top_n = 0
    /\ include_tenders = FALSE
    /\ max_concurrent_requests = 1
    /\ pc = "sweep"
    /\ companies = <<>>
    /\ i = 1
    /\ enrichedCompanies = <<>>
    /\ dataset = <<>>
    /\ qRunning = {}
    /\ qWaiting = <<>>
    /\ active = {}
    /\ finishedB = 0
    /\ finishedC = 0
    /\ tenderLog = <<>>

InitSweep ==
    /\ MainAtRest
    /\ websiteUrl \in {getSeedCompaniesAustria[k].website_url :
                          k \in 1..Len(getSeedCompaniesAustria)}
    /\ sweep = NewSweep
    /\ fetchLog = <<>>

\* one loop iteration: axios.get of the next path resolves or rejects
FetchPage ==
    /\ sweep.status = "running"
    /\ sweep.idx <= Len(pagesToScrape)
    /\ \E response \in Responses :
        /\ sweep' = SweepStep(sweep, websiteUrl, response)
        /\ fetchLog' = Append(fetchLog,
                              [path |-> pagesToScrape[sweep.idx], response |-> response])
    /\ UNCHANGED <<mainVars, websiteUrl>>

\* the loop is over: deduplicate and return contactInfo
ReturnContactInfo ==
    /\ sweep.status = "running"
    /\ sweep.idx > Len(pagesToScrape)
    /\ sweep' = SweepReturn(sweep)
    /\ UNCHANGED <<mainVars, websiteUrl, fetchLog>>

NextSweep ==
    \/ FetchPage
    \/ ReturnContactInfo

SpecSweep == InitSweep /\ [][NextSweep]_vars

\* ================================================================ claims
NoDuplicates(s) == \A a, b \in 1..Len(s) : s[a] = s[b] => a = b

FirstIndex(s, v) == CHOOSE k \in 1..Len(s) : s[k] = v /\ \A j \in 1..(k - 1) : s[j] # v

\* r holds every value of all once, ordered by first occurrence in all
FirstOccurrences(r, all) ==
    /\ NoDuplicates(r)
    /\ Range(r) = Range(all)
    /\ \A a, b \in 1..Len(r) : a < b => FirstIndex(all, r[a]) < FirstIndex(all, r[b])

RECURSIVE LoggedEmails(_)
LoggedEmails(log) ==
    IF log = <<>> THEN <<>>
    ELSE (IF Head(log).response.ok THEN EmailMatches(Head(log).response.text) ELSE <<>>)
         \o LoggedEmails(Tail(log))

RECURSIVE LoggedPhones(_)
LoggedPhones(log) ==
    IF log = <<>> THEN <<>>
    ELSE (IF Head(log).response.ok THEN PhoneMatches(Head(log).response.text) ELSE <<>>)
         \o LoggedPhones(Tail(log))

\* C1: in every reachable state of a run, the number of company tasks
\* (Task B and Task C) that have started and not finished is at most
\* max_concurrent_requests.
C1_BoundedConcurrency == Cardinality(active) <= max_concurrent_requests

C1_Witness ==
    /\ max_concurrent_requests = 1
    /\ Len(companies) = 3
    /\ Task("B", 3) \in active
    /\ Cardinality(active) = max_concurrent_requests

C3_Deduplicated ==
    sweep.status = "returned" =>
        /\ FirstOccurrences(sweep.contactInfo.emails, LoggedEmails(fetchLog))
        /\ FirstOccurrences(sweep.contactInfo.phones, LoggedPhones(fetchLog))

C3_Witness ==
    /\ sweep.status = "returned"
    /\ Len(sweep.contactInfo.emails) = 2
    /\ Len(LoggedEmails(fetchLog)) > 4
    /\ Len(sweep.contactInfo.phones) = 2
    /\ Len(LoggedPhones(fetchLog)) > 4

TenderLookupsOf(k) == {j \in 1..Len(tenderLog) : tenderLog[j][1] = k}

\* C4: with include_tenders, a tender lookup that fails does not stop the
\* run: every company still gets its lookup, every company is saved, the
\* company whose lookup failed carries open_count 0, closed_count 0 and no
\* tenders, and every saved record carries tender_data.
C4_TenderDegradation ==
    include_tenders =>
        /\ \A k \in 1..Len(dataset) :
             /\ HasField(dataset[k], "tender_data")
             /\ \A j \in TenderLookupsOf(k) :
                  tenderLog[j][2] # "found" =>
                    /\ dataset[k].tender_data.open_count = 0
                    /\ dataset[k].tender_data.closed_count = 0
                    /\ dataset[k].tender_data.tenders = <<>>
        /\ pc \in {"save", "done"} =>
             \A k \in 1..Len(companies) : Cardinality(TenderLookupsOf(k)) = 1
        /\ pc = "done" => Len(dataset) = Len(companies)

C4_Witness ==
    /\ include_tenders
    /\ pc = "done"
    /\ Len(dataset) = 3
    /\ tenderLog = << <<1, "rejected">>, <<2, "found">>, <<3, "portal_error">> >>

\* C5: a page request that fails is attempted again before the page is
\* given up (retry with backoff).
C5_FailedFetchRetried ==
    sweep.status = "returned" =>
        \A k \in 1..Len(fetchLog) :
            ~fetchLog[k].response.ok =>
                \E j \in (k + 1)..Len(fetchLog) : fetchLog[j].path = fetchLog[k].path

RecordFields ==
    {"rank", "company_name", "industry", "hq_city", "website_url", "emails",
     "phones", "address", "imprint_url", "tender_data", "scraped_at"}

\* C6: each record pushed to the dataset has all of the documented fields,
\* for every input configuration.
C6_AllFieldsPresent ==
    \A k \in 1..Len(dataset) : RecordFields \subseteq DOMAIN dataset[k]

StartedOrQueued == active \cup Range(qWaiting)

\* C7: the phases never overlap: a Task C task exists only when every
\* Task B task has finished, and a record is in the dataset only when
\* every task has finished (every tender task, with include_tenders).
C7_PhasesNeverOverlap ==
    /\ (finishedC > 0 \/ \E t \in StartedOrQueued : t.kind = "C") =>
          /\ finishedB = Len(companies)
          /\ \A t \in StartedOrQueued : t.kind # "B"
    /\ Len(dataset) > 0 =>
          /\ StartedOrQueued = {}
          /\ finishedB = Len(companies)
          /\ include_tenders => finishedC = Len(enrichedCompanies)

C7_Witness ==
    /\ include_tenders
    /\ Len(dataset) = 2
    /\ finishedB = 3
    /\ finishedC = 3
====
